---------------------------- MODULE Spec2Model ----------------------------
(***************************************************************************)
(* The PBMC notebook 03_pbmc_colab_annotation.ipynb as a state machine.    *)
(*                                                                         *)
(* The only object of the notebook is `adata`, an annotated matrix         *)
(* (X, obs, var and the keys of uns, obsm, varm, obsp).  Every statement of the notebook that changes *)
(* `adata` is one action; `pc` is the statement the kernel runs next and   *)
(* `status` tells whether a statement has raised.                          *)
(*                                                                         *)
(* Genes come in blocks: a column of the model stands for `size` genes     *)
(* that have the same count in every cell, so that the thresholds of the   *)
(* notebook (200, 2500, 3, 5) keep their values on small matrices.         *)
(* The numerical routines of the library (highly variable genes, PCA,      *)
(* neighbours, Leiden, UMAP, rank_genes_groups) are opaque: the model      *)
(* keeps what they write and where, and draws their results from every     *)
(* value of the documented shape.                                          *)
(***************************************************************************)
EXTENDS Integers, Sequences, FiniteSets, TLC

VARIABLES pc, status, adata

vars == <<pc, status, adata>>

---------------------------------------------------------------------------
(* Bounds of the model *)

\* cells of a loaded dataset
MaxCells == 4
\* cells of the clustering input of SpecAnnot
MaxClusteredCells == 6

---------------------------------------------------------------------------
(* Literal parameters of the notebook *)

min_genes == 200
min_cells == 3
max_n_genes_by_counts == 2500
max_pct_counts_mt == 5
target_sum == 10000

cluster_annotations ==
    [k \in {"0", "1", "2", "3", "4"} |->
        CASE k = "0" -> "Naive T cells"
          [] k = "1" -> "Memory T cells"
          [] k = "2" -> "B cells"
          [] k = "3" -> "NK cells"
          [] k = "4" -> "Monocytes"]

\* the column sc.tl.leiden writes and the annotation cell reads
cluster_key == "leiden"
\* the column the student exercise names
exercise_key == "louvain"

---------------------------------------------------------------------------
(* Generic helpers *)

NaN == "NaN"

RECURSIVE MaskSelect(_, _)
\* s[mask]: the entries of s at the positions where mask is TRUE
MaskSelect(s, mask) ==
    IF s = <<>> THEN <<>>
    ELSE (IF Head(mask) THEN <<Head(s)>> ELSE <<>>)
            \o MaskSelect(Tail(s), Tail(mask))

RECURSIVE SumSeq(_)
SumSeq(s) == IF s = <<>> THEN 0 ELSE Head(s) + SumSeq(Tail(s))

Range(s) == {s[i] : i \in DOMAIN s}

\* a table with one more column (or one column replaced)
SetCol(cols, name, values) ==
    [c \in DOMAIN cols \cup {name} |-> IF c = name THEN values ELSE cols[c]]

EmptyCols == [c \in {} |-> <<>>]

---------------------------------------------------------------------------
(* The datasets the load step may return *)

\* gene blocks of the example datasets: name of the block, genes in it
GeneBlocks ==
    << [name |-> "CD3E",   size |-> 190],
       [name |-> "NKG7",   size |-> 2300],
       [name |-> "MT-CO1", size |-> 10] >>

NBlocks == Len(GeneBlocks)

BlockSize(g) == (CHOOSE b \in Range(GeneBlocks) : b.name = g).size

\* str.startswith('MT-')
StartsWithMT(g) == g \in {"MT-CO1"}

\* counts of a gene block in a cell
Counts == {0, 1}

Rows == [1..NBlocks -> Counts]

RowCode(r) == SumSeq([j \in 1..NBlocks |-> r[j] * (2 ^ (j - 1))])

\* count matrices of n cells, one per multiset of rows
Matrices(n) ==
    {m \in [1..n -> Rows] :
        \A i \in 1..(n - 1) : RowCode(m[i]) <= RowCode(m[i + 1])}

\* X with its row and column labels, the two annotation tables, and the keys
\* of the unstructured and multi-dimensional results (uns, obsm, varm, obsp)
AnnData(X, obs, var, keys) ==
    [X |-> X, obs |-> obs, var |-> var, keys |-> keys]

NoData ==
    AnnData([rowid |-> <<>>, colid |-> <<>>, val |-> <<>>, transform |-> <<>>],
            [index |-> <<>>, cols |-> EmptyCols, categories |-> EmptyCols],
            [index |-> <<>>, cols |-> EmptyCols],
            {})

\* the annotated matrix read from a count matrix of n cells
Dataset(n, m) ==
    AnnData([rowid |-> [i \in 1..n |-> i],
             colid |-> [j \in 1..NBlocks |-> GeneBlocks[j].name],
             val |-> m,
             transform |-> <<>>],
            [index |-> [i \in 1..n |-> i], cols |-> EmptyCols,
             categories |-> EmptyCols],
            [index |-> [j \in 1..NBlocks |-> GeneBlocks[j].name],
             cols |-> EmptyCols],
            {})

---------------------------------------------------------------------------
(* Shape and subsetting of an annotated matrix *)

n_obs(ad) == Len(ad.obs.index)

\* genes of the matrix: the sizes of its blocks
n_vars(ad) == SumSeq([j \in DOMAIN ad.var.index |-> BlockSize(ad.var.index[j])])

\* a row subset that reaches the matrix and not its table
SubsetObsMatrixOnly(ad, mask) ==
    [ad EXCEPT
        !.X.rowid = MaskSelect(@, mask),
        !.X.val = MaskSelect(@, mask)]

\* adata[mask, :] and _inplace_subset_obs: rows of X and of obs together
SubsetObs(ad, mask) ==
    [ad EXCEPT
        !.X.rowid = MaskSelect(@, mask),
        !.X.val = MaskSelect(@, mask),
        !.obs.index = MaskSelect(@, mask),
        !.obs.cols = [c \in DOMAIN @ |-> MaskSelect(@[c], mask)]]

\* adata[:, mask] and _inplace_subset_var: columns of X and rows of var together
SubsetVar(ad, mask) ==
    [ad EXCEPT
        !.X.colid = MaskSelect(@, mask),
        !.X.val = [i \in DOMAIN @ |-> MaskSelect(@[i], mask)],
        !.var.index = MaskSelect(@, mask),
        !.var.cols = [c \in DOMAIN @ |-> MaskSelect(@[c], mask)]]

---------------------------------------------------------------------------
(* Per-cell and per-gene metrics *)

\* genes with a non-zero count in row i
GenesInCell(ad, i) ==
    SumSeq([j \in DOMAIN ad.X.colid |->
        IF ad.X.val[i][j] > 0 THEN BlockSize(ad.X.colid[j]) ELSE 0])

\* sum of the counts of row i over the genes selected by keep
CountsInCell(ad, i, keep) ==
    SumSeq([j \in DOMAIN ad.X.colid |->
        IF keep[j] THEN ad.X.val[i][j] * BlockSize(ad.X.colid[j]) ELSE 0])

\* cells with a non-zero count in column j
CellsWithGene(ad, j) ==
    Cardinality({i \in DOMAIN ad.X.val : ad.X.val[i][j] > 0})

\* sum of the counts of one gene of column j over the cells
CountsOfGene(ad, j) == SumSeq([i \in DOMAIN ad.X.val |-> ad.X.val[i][j]])

AllGenes(ad) == [j \in DOMAIN ad.X.colid |-> TRUE]

\* a ratio num/den; den = 0 is the NaN of 0/0
Ratio(num, den) == [num |-> num, den |-> den]

\* r < bound in floating point: every comparison with NaN is False
RatioLess(r, bound) == r.den > 0 /\ r.num < bound * r.den

---------------------------------------------------------------------------
(* The statements of the notebook, as functions of adata *)

\* sc.pp.filter_cells(adata, min_genes=200)
filter_cells(ad) ==
    LET number == [i \in 1..n_obs(ad) |-> GenesInCell(ad, i)]
        cell_subset == [i \in 1..n_obs(ad) |-> number[i] >= min_genes]
    IN  SubsetObs([ad EXCEPT !.obs.cols = SetCol(@, "n_genes", number)],
                  cell_subset)

\* filter_genes with the bound one too low
filter_genes_one_less(ad) ==
    LET number == [j \in DOMAIN ad.var.index |-> CellsWithGene(ad, j)]
        gene_subset == [j \in DOMAIN ad.var.index |-> number[j] >= min_cells - 1]
    IN  SubsetVar([ad EXCEPT !.var.cols = SetCol(@, "n_cells", number)],
                  gene_subset)

\* sc.pp.filter_genes(adata, min_cells=3)
filter_genes(ad) ==
    LET number == [j \in DOMAIN ad.var.index |-> CellsWithGene(ad, j)]
        gene_subset == [j \in DOMAIN ad.var.index |-> number[j] >= min_cells]
    IN  SubsetVar([ad EXCEPT !.var.cols = SetCol(@, "n_cells", number)],
                  gene_subset)

\* adata.var['mt'] = adata.var_names.str.startswith('MT-')
set_mt(ad) ==
    [ad EXCEPT !.var.cols =
        SetCol(@, "mt", [j \in DOMAIN ad.var.index |-> StartsWithMT(ad.var.index[j])])]

\* sc.pp.calculate_qc_metrics(adata, qc_vars=['mt'], percent_top=None,
\*                            log1p=False, inplace=True)
calculate_qc_metrics(ad) ==
    LET cells == 1..n_obs(ad)
        genes == DOMAIN ad.var.index
        mt == ad.var.cols["mt"]
        total == [i \in cells |-> CountsInCell(ad, i, AllGenes(ad))]
        total_mt == [i \in cells |-> CountsInCell(ad, i, mt)]
        obs1 == SetCol(ad.obs.cols, "n_genes_by_counts",
                       [i \in cells |-> GenesInCell(ad, i)])
        obs2 == SetCol(obs1, "total_counts", total)
        obs3 == SetCol(obs2, "total_counts_mt", total_mt)
        obs4 == SetCol(obs3, "pct_counts_mt",
                       [i \in cells |-> Ratio(100 * total_mt[i], total[i])])
        var1 == SetCol(ad.var.cols, "n_cells_by_counts",
                       [j \in genes |-> CellsWithGene(ad, j)])
        var2 == SetCol(var1, "mean_counts",
                       [j \in genes |-> Ratio(CountsOfGene(ad, j), n_obs(ad))])
        var3 == SetCol(var2, "pct_dropout_by_counts",
                       [j \in genes |->
                           Ratio(100 * (n_obs(ad) - CellsWithGene(ad, j)), n_obs(ad))])
        var4 == SetCol(var3, "total_counts",
                       [j \in genes |-> CountsOfGene(ad, j)])
    IN  [ad EXCEPT !.obs.cols = obs4, !.var.cols = var4]

\* the subset with <= for <
subset_n_genes_by_counts_inclusive(ad) ==
    SubsetObs(ad, [i \in 1..n_obs(ad) |->
        ad.obs.cols["n_genes_by_counts"][i] <= max_n_genes_by_counts])

\* adata = adata[adata.obs.n_genes_by_counts < 2500, :]
subset_n_genes_by_counts(ad) ==
    SubsetObs(ad, [i \in 1..n_obs(ad) |->
        ad.obs.cols["n_genes_by_counts"][i] < max_n_genes_by_counts])

\* adata = adata[adata.obs.pct_counts_mt < 5, :]
subset_pct_counts_mt(ad) ==
    SubsetObs(ad, [i \in 1..n_obs(ad) |->
        RatioLess(ad.obs.cols["pct_counts_mt"][i], max_pct_counts_mt)])

\* the values of X are the counts with these transformations applied, in order
Transformed(ad, how) == [ad EXCEPT !.X.transform = Append(@, how)]

\* an opaque floating-point column, one value per row of the table
Floats(index) == [j \in DOMAIN index |-> "float"]

\* sc.pp.normalize_total(adata, target_sum=1e4)
normalize_total(ad) == Transformed(ad, <<"normalize_total", target_sum>>)

\* sc.pp.log1p(adata)
log1p(ad) == [Transformed(ad, <<"log1p">>) EXCEPT !.keys = @ \cup {"uns/log1p"}]

\* adata.var_names_make_unique(): the gene names of the datasets are unique
var_names_make_unique(ad) == ad

\* the gene masks sc.pp.highly_variable_genes may flag
HvgMasks(ad) == [DOMAIN ad.var.index -> BOOLEAN]

\* sc.pp.highly_variable_genes(adata, min_mean=0.0125, max_mean=3, min_disp=0.5)
highly_variable_genes(ad, flagged) ==
    LET v1 == SetCol(ad.var.cols, "highly_variable", flagged)
        v2 == SetCol(v1, "means", Floats(ad.var.index))
        v3 == SetCol(v2, "dispersions", Floats(ad.var.index))
        v4 == SetCol(v3, "dispersions_norm", Floats(ad.var.index))
    IN  [ad EXCEPT !.var.cols = v4, !.keys = @ \cup {"uns/hvg"}]

\* adata = adata[:, adata.var.highly_variable]
subset_highly_variable(ad) == SubsetVar(ad, ad.var.cols["highly_variable"])

\* sc.pp.scale(adata, max_value=10)
scale(ad) ==
    LET v1 == SetCol(ad.var.cols, "mean", Floats(ad.var.index))
        v2 == SetCol(v1, "std", Floats(ad.var.index))
    IN  [Transformed(ad, <<"scale", 10>>) EXCEPT !.var.cols = v2]

\* sc.tl.pca(adata, svd_solver='arpack')
pca(ad) == [ad EXCEPT !.keys = @ \cup {"obsm/X_pca", "varm/PCs", "uns/pca"}]

\* a decomposition needs a matrix with a cell and a gene
CanDecompose(ad) == n_obs(ad) >= 1 /\ n_vars(ad) >= 1

\* sc.pp.neighbors(adata, n_neighbors=10, n_pcs=40)
neighbors(ad) ==
    [ad EXCEPT !.keys = @ \cup
        {"uns/neighbors", "obsp/distances", "obsp/connectivities"}]

---------------------------------------------------------------------------
(* Clustering and annotation *)

\* str(k) for the cluster numbers of the model
ClusterNames == <<"0", "1", "2", "3", "4", "5", "6", "7", "8", "9">>

MaxN == IF MaxCells > MaxClusteredCells THEN MaxCells ELSE MaxClusteredCells

ClusterSize(f, c) == Cardinality({i \in DOMAIN f : f[i] = c})

\* the memberships Leiden may return for n cells: clusters 0..k-1, none of
\* them empty, numbered from the largest to the smallest
Memberships ==
    [n \in 0..MaxN |->
        IF n = 0 THEN {<<>>}
        ELSE UNION {
            {f \in [1..n -> 0..(k - 1)] :
                /\ \A c \in 0..(k - 1) : ClusterSize(f, c) >= 1
                /\ \A c \in 0..(k - 2) : ClusterSize(f, c) >= ClusterSize(f, c + 1)}
            : k \in 1..n}]

\* a categorical column: the codes of the cells and the categories they index
SetCategorical(ad, name, codes, categories) ==
    [ad EXCEPT !.obs.cols = SetCol(@, name, codes),
               !.obs.categories = SetCol(@, name, categories)]

\* the value of categorical column name in row i (NaN where the code is -1)
CatValue(ad, name, i) ==
    LET code == ad.obs.cols[name][i]
    IN  IF code = -1 THEN NaN ELSE ad.obs.categories[name][code + 1]

\* sc.tl.leiden(adata)
leiden(ad, membership) ==
    LET k == Cardinality(Range(membership))
    IN  [SetCategorical(ad, cluster_key, membership, SubSeq(ClusterNames, 1, k))
            EXCEPT !.keys = @ \cup {"uns/leiden"}]

\* sc.tl.umap(adata)
umap(ad) == [ad EXCEPT !.keys = @ \cup {"obsm/X_umap", "uns/umap"}]

\* sc.pl.umap(adata, color=[key]) stores the palette of the categories
pl_umap(ad, key) == [ad EXCEPT !.keys = @ \cup {"uns/" \o key \o "_colors"}]

\* sc.tl.rank_genes_groups(adata, 'leiden', method=..., key_added=key)
rank_genes_groups(ad, key) == [ad EXCEPT !.keys = @ \cup {"uns/" \o key}]

\* a lookup that falls back to the first label for a value that is no key
MapWithDefault(values, mapping) ==
    [i \in DOMAIN values |->
        IF values[i] \in DOMAIN mapping THEN mapping[values[i]]
        ELSE mapping["0"]]

\* Series.map(mapping): the mapped value, NaN for a value that is no key
Map(values, mapping) ==
    [i \in DOMAIN values |->
        IF values[i] \in DOMAIN mapping THEN mapping[values[i]] ELSE NaN]

\* the labels of cluster_annotations in the order pandas sorts categories
SortedLabels ==
    <<"B cells", "Memory T cells", "Monocytes", "NK cells", "Naive T cells">>

IndexOf(s, x) == CHOOSE i \in DOMAIN s : s[i] = x

\* a conversion that lists the categories in the order of the mapping and
\* codes them in sorted order
AsTypeCategoryUnsorted(values) ==
    LET Present(l) == l \in Range(values)
        InMappingOrder ==
            <<"Naive T cells", "Memory T cells", "B cells", "NK cells", "Monocytes">>
        sorted == SelectSeq(SortedLabels, Present)
    IN  [categories |-> SelectSeq(InMappingOrder, Present),
         codes |-> [i \in DOMAIN values |->
                      IF values[i] = NaN THEN -1
                      ELSE IndexOf(sorted, values[i]) - 1]]

\* Series.astype('category'): the sorted distinct values other than NaN
\* become the categories, NaN gets the code -1
AsTypeCategory(values) ==
    LET Present(l) == l \in Range(values)
        categories == SelectSeq(SortedLabels, Present)
    IN  [categories |-> categories,
         codes |-> [i \in DOMAIN values |->
                      IF values[i] = NaN THEN -1
                      ELSE IndexOf(categories, values[i]) - 1]]

\* Series.map on the categorical cluster column: the categories are mapped;
\* when every category has a label (the labels are distinct) the result is a
\* categorical with the mapped categories and the same codes, otherwise it
\* is the plain sequence of the mapped values
MapCategorical(codes, categories, mapping) ==
    LET new_categories == Map(categories, mapping)
        one_to_one ==
            /\ NaN \notin Range(new_categories)
            /\ Cardinality(Range(new_categories)) = Len(new_categories)
    IN  IF one_to_one
        THEN [categorical |-> TRUE, codes |-> codes, categories |-> new_categories]
        ELSE [categorical |-> FALSE,
              values |-> [i \in DOMAIN codes |-> new_categories[codes[i] + 1]]]

\* adata.obs['leiden'].map(cluster_annotations).astype('category'): the
\* conversion leaves a categorical as it is
CellTypeColumn(ad) ==
    LET mapped == MapCategorical(ad.obs.cols[cluster_key],
                                 ad.obs.categories[cluster_key],
                                 cluster_annotations)
    IN  IF mapped.categorical
        THEN [codes |-> mapped.codes, categories |-> mapped.categories]
        ELSE AsTypeCategory(mapped.values)

\* an annotation written over the cluster column
annotate_over_clusters(ad) ==
    LET cat == CellTypeColumn(ad)
    IN  SetCategorical(SetCategorical(ad, "cell_type", cat.codes, cat.categories),
                       cluster_key, cat.codes, cat.categories)

\* adata.obs['cell_type'] =
\*     adata.obs['leiden'].map(cluster_annotations).astype('category')
annotate(ad) ==
    LET cat == CellTypeColumn(ad)
    IN  SetCategorical(ad, "cell_type", cat.codes, cat.categories)

---------------------------------------------------------------------------
(* Control: the statements in the order of the notebook *)

Order ==
    << "load", "filter_cells", "filter_genes", "set_mt", "calculate_qc_metrics",
       "subset_n_genes_by_counts", "subset_pct_counts_mt",
       "normalize_total", "log1p",
       "var_names_make_unique", "highly_variable_genes", "subset_highly_variable",
       "scale", "pca",
       "neighbors", "leiden",
       "umap", "pl_umap_leiden",
       "rank_genes_ttest", "rank_genes_wilcoxon",
       "annotate", "pl_umap_cell_type",
       "done" >>

Pos(l) == IndexOf(Order, l)

\* an order that leaves the decomposition out
SuccSkippingPca(l) == IF l = "scale" THEN "neighbors" ELSE Order[Pos(l) + 1]

\* the statement after l
Succ(l) == Order[Pos(l) + 1]

\* a kernel that goes on after a statement has raised
RunsAfterFailure(l) == pc = l

\* the kernel runs statement l next and nothing has raised
Runs(l) == status = "ok" /\ pc = l

\* statement l ran to its end with result ad
Completes(ad) == adata' = ad /\ pc' = Succ(pc) /\ UNCHANGED status

Load ==
    /\ Runs("load")
    /\ \E n \in 0..MaxCells : \E m \in Matrices(n) : Completes(Dataset(n, m))

FilterCells == Runs("filter_cells") /\ Completes(filter_cells(adata))

FilterGenes == Runs("filter_genes") /\ Completes(filter_genes(adata))

SetMt == Runs("set_mt") /\ Completes(set_mt(adata))

CalculateQcMetrics ==
    Runs("calculate_qc_metrics") /\ Completes(calculate_qc_metrics(adata))

SubsetNGenesByCounts ==
    Runs("subset_n_genes_by_counts") /\ Completes(subset_n_genes_by_counts(adata))

SubsetPctCountsMt ==
    Runs("subset_pct_counts_mt") /\ Completes(subset_pct_counts_mt(adata))

NormalizeTotal == Runs("normalize_total") /\ Completes(normalize_total(adata))

Log1p == Runs("log1p") /\ Completes(log1p(adata))

VarNamesMakeUnique ==
    Runs("var_names_make_unique") /\ Completes(var_names_make_unique(adata))

HighlyVariableGenes ==
    /\ Runs("highly_variable_genes")
    /\ \E flagged \in HvgMasks(adata) :
          Completes(highly_variable_genes(adata, flagged))

SubsetHighlyVariable ==
    Runs("subset_highly_variable") /\ Completes(subset_highly_variable(adata))

Scale == Runs("scale") /\ Completes(scale(adata))

Pca == Runs("pca") /\ CanDecompose(adata) /\ Completes(pca(adata))

Neighbors == Runs("neighbors") /\ Completes(neighbors(adata))

Leiden ==
    /\ Runs("leiden")
    /\ \E membership \in Memberships[n_obs(adata)] :
          Completes(leiden(adata, membership))

Umap == Runs("umap") /\ Completes(umap(adata))

PlUmapLeiden == Runs("pl_umap_leiden") /\ Completes(pl_umap(adata, cluster_key))

RankGenesTTest ==
    Runs("rank_genes_ttest") /\ Completes(rank_genes_groups(adata, "rank_genes_groups"))

RankGenesWilcoxon ==
    /\ Runs("rank_genes_wilcoxon")
    /\ Completes(rank_genes_groups(adata, "wilcoxon_rank_genes_groups"))

Annotate == Runs("annotate") /\ Completes(annotate(adata))

PlUmapCellType ==
    Runs("pl_umap_cell_type") /\ Completes(pl_umap(adata, "cell_type"))

\* the statement the kernel runs raises: the run of the notebook ends there
Raise ==
    /\ status = "ok"
    /\ pc # "done"
    /\ status' = "failed"
    /\ UNCHANGED <<pc, adata>>

Init == pc = "load" /\ status = "ok" /\ adata = NoData

Next ==
    \/ Load
    \/ FilterCells
    \/ FilterGenes
    \/ SetMt
    \/ CalculateQcMetrics
    \/ SubsetNGenesByCounts
    \/ SubsetPctCountsMt
    \/ NormalizeTotal
    \/ Log1p
    \/ VarNamesMakeUnique
    \/ HighlyVariableGenes
    \/ SubsetHighlyVariable
    \/ Scale
    \/ Pca
    \/ Neighbors
    \/ Leiden
    \/ Umap
    \/ PlUmapLeiden
    \/ RankGenesTTest
    \/ RankGenesWilcoxon
    \/ Annotate
    \/ PlUmapCellType
    \/ Raise

Spec == Init /\ [][Next]_vars

---------------------------------------------------------------------------
(* The annotation steps on their own: the run of the notebook from the     *)
(* Leiden statement on, for datasets of n cells that all pass the          *)
(* quality control.                                                        *)

\* every cell expresses the NKG7 block alone
NkMatrix(n) == [i \in 1..n |-> <<0, 1, 0>>]

\* adata as the statements before sc.tl.leiden leave it
BeforeLeiden(n) ==
    LET a1 == filter_genes(filter_cells(Dataset(n, NkMatrix(n))))
        a2 == calculate_qc_metrics(set_mt(a1))
        a3 == subset_pct_counts_mt(subset_n_genes_by_counts(a2))
        a4 == var_names_make_unique(log1p(normalize_total(a3)))
        a5 == highly_variable_genes(a4, [j \in DOMAIN a4.var.index |-> TRUE])
        a6 == scale(subset_highly_variable(a5))
    IN  neighbors(pca(a6))

InitAnnot ==
    /\ pc = "leiden"
    /\ status = "ok"
    /\ \E n \in min_cells..MaxClusteredCells : adata = BeforeLeiden(n)

NextAnnot ==
    \/ Leiden
    \/ Umap
    \/ PlUmapLeiden
    \/ RankGenesTTest
    \/ RankGenesWilcoxon
    \/ Annotate
    \/ PlUmapCellType
    \/ Raise

SpecAnnot == InitAnnot /\ [][NextAnnot]_vars

---------------------------------------------------------------------------
(* Properties *)

\* statement l has run to its end
After(l) == Pos(pc) > Pos(l)

\* the quality control has ended and no later statement has run
AtQcEnd == pc = "normalize_total"

Cells == 1..n_obs(adata)

Genes == DOMAIN adata.var.index

\* the mitochondrial percentage of row i, recomputed from the matrix
PctMtOf(i) ==
    Ratio(100 * CountsInCell(adata, i, [j \in Genes |-> StartsWithMT(adata.X.colid[j])]),
          CountsInCell(adata, i, AllGenes(adata)))

\* the clusters and the labels of the cells
ClusterOf(i) == CatValue(adata, cluster_key, i)

CellTypeOf(i) == CatValue(adata, "cell_type", i)

\* C1 as claimed: every cell of the matrix at the end of the quality control
\* has at least 200 and fewer than 2500 genes of that matrix with a non-zero
\* count, and a mitochondrial percentage below 5.
C1_AsClaimed ==
    AtQcEnd =>
        \A i \in Cells :
            /\ GenesInCell(adata, i) >= min_genes
            /\ GenesInCell(adata, i) < max_n_genes_by_counts
            /\ RatioLess(PctMtOf(i), max_pct_counts_mt)

\* C1 (amended): every cell of the matrix at the end of the quality control
\* had at least 200 genes with a non-zero count when filter_cells counted
\* them (obs['n_genes'], before filter_genes removed genes), has fewer than
\* 2500 genes of the final matrix with a non-zero count, and has a
\* mitochondrial percentage below 5.
C1_QcCellBounds ==
    AtQcEnd =>
        \A i \in Cells :
            /\ adata.obs.cols["n_genes"][i] >= min_genes
            /\ GenesInCell(adata, i) <= adata.obs.cols["n_genes"][i]
            /\ GenesInCell(adata, i) < max_n_genes_by_counts
            /\ RatioLess(PctMtOf(i), max_pct_counts_mt)

\* a cell passed the quality control with fewer than 200 genes left
C1_Witness ==
    /\ AtQcEnd
    /\ status = "ok"
    /\ \E i \in Cells : GenesInCell(adata, i) \in 1..(min_genes - 1)

\* C2 as claimed: every gene of the matrix at the end of the quality control
\* has a non-zero count in at least 3 of the cells retained there.
C2_AsClaimed ==
    AtQcEnd => \A j \in Genes : CellsWithGene(adata, j) >= min_cells

\* C2 (amended): every gene of the matrix at the end of the quality control
\* had a non-zero count in at least 3 cells when filter_genes counted them
\* (var['n_cells'], after filter_cells and before the two cell subsets); the
\* cells retained at the end that express it are at most that many and may
\* be fewer than 3.
C2_QcGeneBound ==
    AtQcEnd =>
        \A j \in Genes :
            /\ adata.var.cols["n_cells"][j] >= min_cells
            /\ CellsWithGene(adata, j) <= adata.var.cols["n_cells"][j]

\* a retained gene is expressed in fewer than 3 of the retained cells
C2_Witness ==
    /\ AtQcEnd
    /\ status = "ok"
    /\ n_obs(adata) >= 1
    /\ \E j \in Genes : CellsWithGene(adata, j) < min_cells

\* C3: after the annotation every cell whose cluster is a key of
\* cluster_annotations has the mapped label, and when the clusters present
\* are exactly '0'..'4' the labels present are exactly the five labels.
C3_MappedLabels ==
    After("annotate") =>
        /\ \A i \in Cells :
              ClusterOf(i) \in DOMAIN cluster_annotations =>
                  CellTypeOf(i) = cluster_annotations[ClusterOf(i)]
        /\ {ClusterOf(i) : i \in Cells} = DOMAIN cluster_annotations =>
              /\ {CellTypeOf(i) : i \in Cells} = Range(cluster_annotations)
              /\ Cardinality({CellTypeOf(i) : i \in Cells}) = 5
              /\ Range(adata.obs.categories["cell_type"]) = Range(cluster_annotations)

\* the annotation ran on cells of exactly the clusters '0'..'4'
C3_Witness ==
    /\ After("annotate")
    /\ {ClusterOf(i) : i \in Cells} = DOMAIN cluster_annotations

\* C4: after the annotation every cell whose cluster is no key of
\* cluster_annotations has a missing cell_type: its code in the categorical
\* is -1 and its value is none of the five labels.
C4_UnmappedMissing ==
    After("annotate") =>
        \A i \in Cells :
            ClusterOf(i) \notin DOMAIN cluster_annotations =>
                /\ adata.obs.cols["cell_type"][i] = -1
                /\ CellTypeOf(i) = NaN
                /\ CellTypeOf(i) \notin Range(cluster_annotations)
                /\ NaN \notin Range(adata.obs.categories["cell_type"])

\* the annotation ran on a cell of cluster '5'
C4_Witness ==
    /\ After("annotate")
    /\ \E i \in Cells : ClusterOf(i) = "5"

\* the tables of ad have the rows and columns of its matrix
Aligned(ad) ==
    /\ Len(ad.X.val) = Len(ad.obs.index)
    /\ ad.X.rowid = ad.obs.index
    /\ \A c \in DOMAIN ad.obs.cols : Len(ad.obs.cols[c]) = Len(ad.obs.index)
    /\ \A i \in DOMAIN ad.X.val : Len(ad.X.val[i]) = Len(ad.var.index)
    /\ ad.X.colid = ad.var.index
    /\ \A c \in DOMAIN ad.var.cols : Len(ad.var.cols[c]) = Len(ad.var.index)

\* C5: in every state obs has one row per row of X, for the same cells, and
\* var one row per column of X, for the same genes.
C5_TablesAligned == Aligned(adata)

\* cells and genes were removed and some are left
C5_Witness ==
    /\ After("subset_highly_variable")
    /\ n_obs(adata) >= 1
    /\ Len(adata.var.index) \in 1..(NBlocks - 1)
    /\ \E j \in Genes : adata.var.cols["n_cells"][j] > n_obs(adata)

\* the stage of the system overview a statement belongs to
StageOf(l) ==
    CASE Pos(l) <= Pos("load") -> 1
      [] Pos(l) <= Pos("subset_pct_counts_mt") -> 2
      [] Pos(l) <= Pos("log1p") -> 3
      [] Pos(l) <= Pos("subset_highly_variable") -> 4
      [] Pos(l) <= Pos("pca") -> 5
      [] Pos(l) <= Pos("leiden") -> 6
      [] Pos(l) <= Pos("pl_umap_leiden") -> 7
      [] Pos(l) <= Pos("rank_genes_wilcoxon") -> 8
      [] OTHER -> 9

\* what statement l reads has been written
InputsWritten(l) ==
    CASE l = "calculate_qc_metrics" -> "mt" \in DOMAIN adata.var.cols
      [] l = "subset_n_genes_by_counts" ->
            "n_genes_by_counts" \in DOMAIN adata.obs.cols
      [] l = "subset_pct_counts_mt" -> "pct_counts_mt" \in DOMAIN adata.obs.cols
      [] l = "subset_highly_variable" -> "highly_variable" \in DOMAIN adata.var.cols
      [] l = "neighbors" -> "obsm/X_pca" \in adata.keys
      [] l \in {"leiden", "umap"} -> "uns/neighbors" \in adata.keys
      [] l = "pl_umap_leiden" ->
            "obsm/X_umap" \in adata.keys /\ cluster_key \in DOMAIN adata.obs.cols
      [] l \in {"rank_genes_ttest", "rank_genes_wilcoxon", "annotate"} ->
            cluster_key \in DOMAIN adata.obs.cols
      [] l = "pl_umap_cell_type" -> "cell_type" \in DOMAIN adata.obs.cols
      [] OTHER -> TRUE

C7_FailureStops ==
    [][/\ status = "ok"
       /\ status' = "failed" => pc' = pc /\ adata' = adata]_vars

\* the decomposition raised on a matrix without cells
C7_Witness ==
    /\ status = "failed"
    /\ pc = "pca"
    /\ n_obs(adata) = 0

\* C9 as claimed: once the clustering has run, obs has the column 'louvain'
\* of the student exercise.
C9_AsClaimed == After("leiden") => exercise_key \in DOMAIN adata.obs.cols

\* C10: after the quality control no statement changes the cells of the
\* matrix and only the highly-variable subset changes the genes; the
\* annotation leaves the cluster column as it is; every cell has one cluster
\* once Leiden has run and one cell_type entry, a label or missing, once the
\* annotation has run.
C10_CellsKept ==
    /\ [][After("subset_pct_counts_mt") =>
            /\ adata'.obs.index = adata.obs.index
            /\ adata'.X.rowid = adata.X.rowid
            /\ adata'.var.index # adata.var.index => pc = "subset_highly_variable"
            /\ After("leiden") =>
                  /\ adata'.obs.cols[cluster_key] = adata.obs.cols[cluster_key]
                  /\ adata'.obs.categories[cluster_key]
                        = adata.obs.categories[cluster_key]]_vars
    /\ [](After("leiden") =>
            /\ Len(adata.obs.cols[cluster_key]) = n_obs(adata)
            /\ \A i \in Cells : ClusterOf(i) \in Range(ClusterNames))
    /\ [](After("annotate") =>
            /\ Len(adata.obs.cols["cell_type"]) = n_obs(adata)
            /\ \A i \in Cells :
                  CellTypeOf(i) \in Range(cluster_annotations) \cup {NaN})

\* a run clustered and annotated several cells of more than one cluster
C10_Witness ==
    /\ pc = "done"
    /\ status = "ok"
    /\ n_obs(adata) >= 3
    /\ Cardinality({ClusterOf(i) : i \in Cells}) >= 2
    /\ Len(adata.var.index) < NBlocks

=============================================================================
